---------------------------- MODULE Spec2Model ----------------------------
(***************************************************************************)
(* Model of the sentiment-arc core of Creator-Catalyst:                    *)
(*   src/src/core/models.py              TranscriptSegment.to_seconds      *)
(*   src/src/core/sentiment_analyzer.py  SentimentAnalyzer.parse_srt,      *)
(*                                       SentimentAnalyzer.                *)
(*                                         analyze_emotional_arc           *)
(*                                                                         *)
(* A Python str is a sequence of one-character strings.  A float number of *)
(* seconds is an integer number of milliseconds (every timestamp the       *)
(* pattern of parse_srt accepts has exactly three fractional digits, and   *)
(* the floor divisions of the code are exact on such values).  A sentiment *)
(* polarity is an integer number of tenths.                                *)
(***************************************************************************)
EXTENDS Integers, Sequences, FiniteSets, TLC

VARIABLES
    srt_text,        \* argument of analyze_emotional_arc (a str, or None)
    chunk_duration,  \* argument of analyze_emotional_arc
    pc,              \* position inside analyze_emotional_arc
    entries,         \* local: the parsed segments
    chunks,          \* local: the list of chunk dicts
    k,               \* local: number of entries the loop of line 54 has handled
    results,         \* local: the list of result rows
    ret,             \* how the call ended
    placed,          \* history: for each handled entry, the chunk it went to (0: none)
    calls,           \* history: the calls made to the scorer (TextBlob)
    time_str,        \* argument of to_seconds
    self_start,      \* self.start_time of the segment to_seconds is called on
    codec            \* outcome of the to_seconds call

vars == <<srt_text, chunk_duration, pc, entries, chunks, k, results, ret,
          placed, calls, time_str, self_start, codec>>

(***************************************************************************)
(* Characters and strings                                                  *)
(***************************************************************************)
NL == "\n"
SP == " "
None == <<"<None>">>

DigitChars == <<"0", "1", "2", "3", "4", "5", "6", "7", "8", "9">>

Digits == {DigitChars[d] : d \in 1..10}

DigitValues == [c \in Digits |-> (CHOOSE d \in 1..10 : DigitChars[d] = c) - 1]

IsDigit(c) == c \in Digits

DigitVal(c) == DigitValues[c]

AllDigits(s) == \A i \in 1..Len(s) : IsDigit(s[i])

RECURSIVE DecVal(_)
DecVal(s) ==
    IF s = <<>> THEN 0
    ELSE 10 * DecVal(SubSeq(s, 1, Len(s) - 1)) + DigitVal(s[Len(s)])

\* str.replace for a one-character pattern
Replace(s, a, b) == [i \in 1..Len(s) |-> IF s[i] = a THEN b ELSE s[i]]

\* str.split(sep) for a one-character separator: "" gives [""]
RECURSIVE Split(_, _)
Split(s, sep) ==
    LET hits == {j \in 1..Len(s) : s[j] = sep}
    IN  IF hits = {} THEN <<s>>
        ELSE LET i == CHOOSE j \in hits : \A h \in hits : j <= h
             IN  <<SubSeq(s, 1, i - 1)>> \o Split(SubSeq(s, i + 1, Len(s)), sep)

\* str.strip() on a string whose only whitespace is the space
RECURSIVE Strip(_)
Strip(s) ==
    IF s = <<>> THEN s
    ELSE IF s[1] = SP THEN Strip(Tail(s))
    ELSE IF s[Len(s)] = SP THEN Strip(SubSeq(s, 1, Len(s) - 1))
    ELSE s

\* " ".join(list)
RECURSIVE JoinSpace(_)
JoinSpace(l) ==
    IF l = <<>> THEN <<>>
    ELSE IF Len(l) = 1 THEN l[1]
    ELSE l[1] \o <<SP>> \o JoinSpace(Tail(l))

\* Python's // on integers (floor division), also for a negative divisor
FloorDiv(a, b) == IF b > 0 THEN a \div b ELSE (-a) \div (-b)

\* Python's % (the result has the sign of the divisor)
PyMod(a, b) == a - b * FloorDiv(a, b)

(***************************************************************************)
(* TranscriptSegment.to_seconds                                            *)
(***************************************************************************)
\* int(s): a decimal integer or ValueError
IntParse(s) ==
    IF s # <<>> /\ AllDigits(s)
    THEN [ok |-> TRUE, val |-> DecVal(s)]
    ELSE [ok |-> FALSE, val |-> 0]

\* the first three fractional digits, as milliseconds
FracMs(f) ==
    LET d(i) == IF i <= Len(f) THEN DigitVal(f[i]) ELSE 0
    IN  100 * d(1) + 10 * d(2) + d(3)

\* float(s): digits with at most one decimal point and at least one digit,
\* in milliseconds, or ValueError
FloatParse(s) ==
    LET parts == Split(s, ".")
    IN  IF Len(parts) = 1 /\ s # <<>> /\ AllDigits(s)
        THEN [ok |-> TRUE, val |-> 1000 * DecVal(s)]
        ELSE IF /\ Len(parts) = 2
                /\ AllDigits(parts[1]) /\ AllDigits(parts[2])
                /\ Len(parts[1]) + Len(parts[2]) > 0
        THEN [ok |-> TRUE, val |-> 1000 * DecVal(parts[1]) + FracMs(parts[2])]
        ELSE [ok |-> FALSE, val |-> 0]

\* to_seconds(self, time_str): [raised, ms]
to_seconds(ts, start_time) ==
    LET t0    == IF ts = None \/ ts = <<>> THEN start_time ELSE ts
        t     == Replace(t0, ",", ".")
        parts == Split(t, ":")
    IN  IF Len(parts) = 3
        THEN LET h == IntParse(parts[1])
                 m == IntParse(parts[2])
                 s == FloatParse(parts[3])
             IN  IF h.ok /\ m.ok /\ s.ok
                 THEN [raised |-> "no",
                       ms |-> h.val * 3600000 + m.val * 60000 + s.val]
                 ELSE [raised |-> "ValueError", ms |-> 0]
        ELSE IF Len(parts) = 2
        THEN LET m == IntParse(parts[1])
                 s == FloatParse(parts[2])
             IN  IF m.ok /\ s.ok
                 THEN [raised |-> "no", ms |-> m.val * 60000 + s.val]
                 ELSE [raised |-> "ValueError", ms |-> 0]
        ELSE [raised |-> "no", ms |-> 0]

\* entry.to_seconds(): the start time of a parsed segment, in milliseconds
StartMs(entry) == to_seconds(None, entry.start_time).ms

(***************************************************************************)
(* SentimentAnalyzer.parse_srt                                             *)
(***************************************************************************)
At(s, i) == IF i >= 1 /\ i <= Len(s) THEN s[i] ELSE "<end>"

\* \d{2}:\d{2}:\d{2},\d{3} at position p
MatchStamp(s, p) ==
    /\ p + 11 <= Len(s)
    /\ \A i \in {0, 1, 3, 4, 6, 7, 9, 10, 11} : IsDigit(s[p + i])
    /\ s[p + 2] = ":" /\ s[p + 5] = ":" /\ s[p + 8] = ","

Arrow == <<" ", "-", "-", ">", " ">>

\* the end (exclusive) of the run of digits that starts at p
RECURSIVE DigitRunEnd(_, _)
DigitRunEnd(s, p) == IF IsDigit(At(s, p)) THEN DigitRunEnd(s, p + 1) ELSE p

\* (.*?)(?=\n\n|\Z) from position p: the first position at or after p that is
\* followed by two newlines or is the end of the string
RECURSIVE TextEnd(_, _)
TextEnd(s, p) ==
    IF p > Len(s) \/ (At(s, p) = NL /\ At(s, p + 1) = NL) THEN p
    ELSE TextEnd(s, p + 1)

\* the pattern of line 20 tried at position p: [ok, next, seg]
MatchAt(s, p) ==
    LET q  == DigitRunEnd(s, p)
        a  == q + 1
        b  == a + 17
        t  == b + 13
        e  == TextEnd(s, t)
        no == [ok |-> FALSE, next |-> p + 1, seg |-> <<>>]
    IN  IF /\ q > p
           /\ At(s, q) = NL
           /\ MatchStamp(s, a)
           /\ SubSeq(s, a + 12, a + 16) = Arrow
           /\ MatchStamp(s, b)
           /\ At(s, b + 12) = NL
        THEN [ok   |-> TRUE,
              next |-> e,
              seg  |-> [index      |-> DecVal(SubSeq(s, p, q - 1)),
                        start_time |-> SubSeq(s, a, a + 11),
                        end_time   |-> SubSeq(s, b, b + 11),
                        text       |-> Strip(Replace(SubSeq(s, t, e - 1), NL, SP))]]
        ELSE no

\* pattern.findall: the leftmost matches, none overlapping
RECURSIVE FindAll(_, _)
FindAll(s, p) ==
    IF p > Len(s) THEN <<>>
    ELSE LET m == MatchAt(s, p)
         IN  IF m.ok THEN <<m.seg>> \o FindAll(s, m.next)
             ELSE FindAll(s, p + 1)

parse_srt(text) ==
    IF text = None \/ text = <<>> THEN <<>>
    ELSE FindAll(text \o <<NL, NL>>, 1)

(***************************************************************************)
(* SentimentAnalyzer.analyze_emotional_arc                                 *)
(***************************************************************************)
PreviewLen == 100

Ellipsis == <<".", ".", ".">>

Silence == <<"(", "S", "i", "l", "e", "n", "c", "e", ")">>

\* the decimal digits of n >= 0
RECURSIVE Dec(_)
Dec(n) ==
    IF n < 10 THEN <<DigitChars[n + 1]>>
    ELSE Dec(n \div 10) \o <<DigitChars[(n % 10) + 1]>>

\* f"{n:02d}" for n >= 0 (a chunk never starts before second 0)
Fmt02d(n) == IF n < 10 THEN <<"0">> \o Dec(n) ELSE Dec(n)

\* lines 70-72 with the minutes wrapped at 60
TimeLabelWrapped(start_sec) ==
    Fmt02d(FloorDiv(start_sec, 60) % 60) \o <<":">>
    \o Fmt02d(PyMod(start_sec, 60))

\* lines 70-72: the x-axis label of a chunk that starts at start_sec
TimeLabel(start_sec) ==
    Fmt02d(FloorDiv(start_sec, 60)) \o <<":">> \o Fmt02d(PyMod(start_sec, 60))

\* line 50 without the "+ 1": the bucket of the last segment is missing
NumChunksWithoutLast(max_time, d) == FloorDiv(max_time, d * 1000)

\* line 50
NumChunks(max_time, d) == FloorDiv(max_time, d * 1000) + 1

\* line 52
MakeChunkList(n, d) ==
    [i \in 1..n |-> [time |-> (i - 1) * d, text |-> <<>>, start_sec |-> (i - 1) * d]]

\* line 55
ChunkIdx(entry, d) == FloorDiv(StartMs(entry), d * 1000)

\* lines 56-57 with the test "chunk_idx < len(chunks) - 1"
ChunkSlotOffByOne(idx, len) ==
    IF idx >= len - 1 THEN 0
    ELSE IF idx >= 0 THEN idx + 1
    ELSE IF len + idx >= 0 THEN len + idx + 1
    ELSE -1

\* lines 56-57: where chunks[chunk_idx] is, as a position 1..len(chunks);
\* 0: the entry is skipped; -1: IndexError (a negative index beyond the list)
ChunkSlot(idx, len) ==
    IF idx >= len THEN 0
    ELSE IF idx >= 0 THEN idx + 1
    ELSE IF len + idx >= 0 THEN len + idx + 1
    ELSE -1

\* line 63
IsSilent(full_text) == Strip(full_text) = <<>>

\* line 77
Preview(full_text) ==
    IF full_text # <<>>
    THEN SubSeq(full_text, 1, IF Len(full_text) < PreviewLen
                              THEN Len(full_text) ELSE PreviewLen) \o Ellipsis
    ELSE Silence

\* what TextBlob(full_text).sentiment.polarity may do: return a polarity
\* (in tenths) or raise
ScorerOutcomes ==
    {[ok |-> TRUE, polarity |-> -5], [ok |-> TRUE, polarity |-> 7],
     [ok |-> FALSE, polarity |-> 0]}

\* lines 63-67 with a failure of the scorer caught and scored neutral
SentimentAbsorbingFailure(full_text, o) ==
    IF IsSilent(full_text)
    THEN [called |-> FALSE, raised |-> FALSE, sentiment |-> 0]
    ELSE IF o.ok
    THEN [called |-> TRUE, raised |-> FALSE, sentiment |-> o.polarity]
    ELSE [called |-> TRUE, raised |-> FALSE, sentiment |-> 0]

\* lines 63-67: the sentiment of a chunk, given what the scorer does when
\* it is called: [called, raised, sentiment]
Sentiment(full_text, o) ==
    IF IsSilent(full_text)
    THEN [called |-> FALSE, raised |-> FALSE, sentiment |-> 0]
    ELSE IF o.ok
    THEN [called |-> TRUE, raised |-> FALSE, sentiment |-> o.polarity]
    ELSE [called |-> TRUE, raised |-> TRUE, sentiment |-> 0]

\* lines 74-78
Row(chunk, sentiment) ==
    [Time      |-> TimeLabel(chunk.start_sec),
     Sentiment |-> sentiment,
     Text      |-> Preview(JoinSpace(chunk.text))]

CodecIdle == [state |-> "idle", raised |-> "no", ms |-> 0]

\* lines 44-46 returning an empty frame instead of None
ParseReturningEmptyFrame ==
    /\ pc = "start"
    /\ entries' = parse_srt(srt_text)
    /\ IF entries' = <<>>
       THEN pc' = "done" /\ ret' = "DataFrame"
       ELSE pc' = "chunks" /\ ret' = ret
    /\ UNCHANGED <<srt_text, chunk_duration, chunks, k, results, placed, calls,
                   time_str, self_start, codec>>

\* lines 44-46
Parse ==
    /\ pc = "start"
    /\ entries' = parse_srt(srt_text)
    /\ IF entries' = <<>>
       THEN pc' = "done" /\ ret' = "None"
       ELSE pc' = "chunks" /\ ret' = ret
    /\ UNCHANGED <<srt_text, chunk_duration, chunks, k, results, placed, calls,
                   time_str, self_start, codec>>

\* lines 49-52
MakeChunks ==
    /\ pc = "chunks"
    /\ IF chunk_duration = 0
       THEN /\ pc' = "done"
            /\ ret' = "ZeroDivisionError"
            /\ chunks' = chunks
       ELSE LET max_time   == StartMs(entries[Len(entries)])
                num_chunks == NumChunks(max_time, chunk_duration)
            IN  /\ chunks' = MakeChunkList(num_chunks, chunk_duration)
                /\ pc' = "assign"
                /\ ret' = ret
    /\ UNCHANGED <<srt_text, chunk_duration, entries, k, results, placed, calls,
                   time_str, self_start, codec>>

\* lines 54-57: one iteration of the loop over the entries
AssignEntry ==
    /\ pc = "assign"
    /\ k < Len(entries)
    /\ LET entry == entries[k + 1]
           slot  == ChunkSlot(ChunkIdx(entry, chunk_duration), Len(chunks))
       IN  IF slot = -1
           THEN /\ pc' = "done"
                /\ ret' = "IndexError"
                /\ UNCHANGED <<chunks, k, placed>>
           ELSE /\ chunks' = IF slot = 0 THEN chunks
                             ELSE [chunks EXCEPT ![slot].text = Append(@, entry.text)]
                /\ placed' = Append(placed, slot)
                /\ k' = k + 1
                /\ pc' = IF k + 1 = Len(entries) THEN "score" ELSE "assign"
                /\ ret' = ret
    /\ UNCHANGED <<srt_text, chunk_duration, entries, results, calls,
                   time_str, self_start, codec>>

\* lines 61-78: one iteration of the loop over the chunks
ScoreChunk ==
    /\ pc = "score"
    /\ Len(results) < Len(chunks)
    /\ LET i         == Len(results) + 1
           chunk     == chunks[i]
           full_text == JoinSpace(chunk.text)
       IN  \E o \in ScorerOutcomes :
               LET s == Sentiment(full_text, o)
               IN  /\ calls' = IF s.called
                               THEN Append(calls, [chunk |-> i, text |-> full_text,
                                                   outcome |-> o])
                               ELSE calls
                   /\ IF s.raised
                      THEN pc' = "done" /\ ret' = "ScorerError" /\ results' = results
                      ELSE /\ results' = Append(results, Row(chunk, s.sentiment))
                           /\ pc' = pc
                           /\ ret' = ret
    /\ UNCHANGED <<srt_text, chunk_duration, entries, chunks, k, placed,
                   time_str, self_start, codec>>

\* line 80
Return ==
    /\ pc = "score"
    /\ Len(results) = Len(chunks)
    /\ pc' = "done"
    /\ ret' = "DataFrame"
    /\ UNCHANGED <<srt_text, chunk_duration, entries, chunks, k, results, placed,
                   calls, time_str, self_start, codec>>

(***************************************************************************)
(* The transcripts and chunk durations a caller passes                     *)
(***************************************************************************)
MaxBlocks == 2

Good == <<"g", "o", "o", "d">>
Bad  == <<"b", "a", "d">>

\* a timestamp HH:MM:SS,mmm
Stamp(ms) ==
    LET sec == ms \div 1000
        f   == ms % 1000
    IN  Fmt02d(sec \div 3600) \o <<":">> \o Fmt02d((sec \div 60) % 60) \o <<":">>
        \o Fmt02d(sec % 60) \o <<",">>
        \o <<DigitChars[(f \div 100) + 1], DigitChars[((f \div 10) % 10) + 1],
             DigitChars[(f % 10) + 1]>>

\* the timestamp line of a caption that starts at ms and lasts two seconds
StampLine(ms) == Stamp(ms) \o Arrow \o Stamp(ms + 2000)

\* the blocks a transcript is made of, each a sequence of lines
Blocks ==
    {<<Dec(1), StampLine(1000), Good>>,
     <<Dec(4), StampLine(1000), <<SP>>>>,
     <<Dec(11), StampLine(0), Bad>>,
     <<Dec(2), StampLine(29999), Bad>>,
     <<Dec(3), StampLine(40000), Bad>>,
     <<Dec(5), StampLine(40000), Good, Bad>>,
     <<<<"0", "0", "7">>, StampLine(95000), Good>>,
     <<Dec(12), StampLine(5400000), Good>>,
     <<Dec(8), StampLine(1000)>>,
     <<<<"x">>, StampLine(1000), Good>>,
     <<Good, Dec(9), StampLine(95000), Bad>>,
     <<Dec(10), Replace(StampLine(1000), ",", "."), Good>>,
     <<>>}

\* the lines joined, each ended by a newline
RECURSIVE Unlines(_)
Unlines(ls) == IF ls = <<>> THEN <<>> ELSE ls[1] \o <<NL>> \o Unlines(Tail(ls))

\* blocks separated by one blank line; the last line has no newline
RECURSIVE Transcript(_)
Transcript(bs) ==
    IF bs = <<>> THEN <<>>
    ELSE IF Len(bs) = 1
    THEN LET u == Unlines(bs[1]) IN SubSeq(u, 1, Len(u) - 1)
    ELSE Unlines(bs[1]) \o <<NL>> \o Transcript(Tail(bs))

BlockSeqs == UNION {[1..n -> Blocks] : n \in 1..MaxBlocks}

Transcripts ==
    {None, <<>>}
    \cup {Transcript(bs) : bs \in BlockSeqs}
    \cup {Transcript(bs) \o <<NL, NL>> : bs \in BlockSeqs}

Durations == {-30, 0, 30, 5400}

Init ==
    /\ srt_text \in Transcripts
    /\ chunk_duration \in Durations
    /\ pc = "start"
    /\ entries = <<>>
    /\ chunks = <<>>
    /\ k = 0
    /\ results = <<>>
    /\ ret = "pending"
    /\ placed = <<>>
    /\ calls = <<>>
    /\ time_str = None
    /\ self_start = <<>>
    /\ codec = CodecIdle

Next == Parse \/ MakeChunks \/ AssignEntry \/ ScoreChunk \/ Return

Spec == Init /\ [][Next]_vars

(***************************************************************************)
(* A direct call of to_seconds with a timestamp string                     *)
(***************************************************************************)
MaxStrLen == 4

TimeChars == {"0", "9", ":", ",", "x"}

TimeStrings == {None} \cup UNION {[1..n -> TimeChars] : n \in 0..MaxStrLen}

CodecInit ==
    /\ time_str \in TimeStrings
    /\ self_start \in {Stamp(1000), Stamp(0)}
    /\ codec = [state |-> "pending", raised |-> "no", ms |-> 0]
    /\ srt_text = None
    /\ chunk_duration = 30
    /\ pc = "idle"
    /\ entries = <<>>
    /\ chunks = <<>>
    /\ k = 0
    /\ results = <<>>
    /\ ret = "pending"
    /\ placed = <<>>
    /\ calls = <<>>

\* lines 28-40 of models.py
CallToSeconds ==
    /\ codec.state = "pending"
    /\ LET r == to_seconds(time_str, self_start)
       IN  codec' = [state |-> "done", raised |-> r.raised, ms |-> r.ms]
    /\ UNCHANGED <<srt_text, chunk_duration, pc, entries, chunks, k, results, ret,
                   placed, calls, time_str, self_start>>

CodecNext == CallToSeconds

CodecSpec == CodecInit /\ [][CodecNext]_vars

(***************************************************************************)
(* Properties                                                              *)
(***************************************************************************)
Returned == pc = "done" /\ ret = "DataFrame"

\* the loop of lines 54-57 has handled every entry
Assigned == entries # <<>> /\ k = Len(entries)

\* the merged text of chunk i
MergedText(i) == JoinSpace(chunks[i].text)

\* the texts of the first n entries that went to chunk i, in entry order
RECURSIVE FragmentsUpTo(_, _)
FragmentsUpTo(i, n) ==
    IF n = 0 THEN <<>>
    ELSE FragmentsUpTo(i, n - 1)
         \o (IF placed[n] = i THEN <<entries[n].text>> ELSE <<>>)

\* the seconds a label MM:SS stands for
LabelTime(label) ==
    LET parts == Split(label, ":")
    IN  60 * DecVal(parts[1]) + DecVal(parts[2])

\* C1: for a transcript that parses to at least one segment and D >= 1, the
\* call returns floor(start of the last parsed segment / D) + 1 points, the
\* i-th of them (from 0) being the point of the bucket that starts at i*D.
C1_PointCount ==
    (Returned /\ chunk_duration >= 1) =>
        /\ Len(results) =
              (StartMs(entries[Len(entries)]) \div (1000 * chunk_duration)) + 1
        /\ \A i \in 1..Len(results) :
              LabelTime(results[i].Time) = (i - 1) * chunk_duration

\* C1 witness: captions at 1 s and 95 s with D = 30 give the 4 points of
\* 0, 30, 60 and 90 seconds, two of them without caption text.
C1_Witness ==
    /\ Returned /\ chunk_duration = 30
    /\ Len(entries) = 2
    /\ StartMs(entries[1]) = 1000 /\ StartMs(entries[2]) = 95000
    /\ Len(results) = 4
    /\ chunks[2].text = <<>> /\ chunks[3].text = <<>>
    /\ results[4].Time = <<"0", "1", ":", "3", "0">>

\* C2: every emitted point of a bucket whose merged text is empty or only
\* whitespace has score 0.0 and the preview "(Silence)".
C2_SilentBucket ==
    \A i \in 1..Len(results) :
        IsSilent(MergedText(i)) =>
            results[i].Sentiment = 0 /\ results[i].Text = Silence

\* whether ts is 2 or 3 colon-separated numeric fields
NumericFields(ts) ==
    LET parts == Split(Replace(ts, ",", "."), ":")
    IN  /\ Len(parts) \in {2, 3}
        /\ \A i \in 1..(Len(parts) - 1) : IntParse(parts[i]).ok
        /\ FloatParse(parts[Len(parts)]).ok

\* C3: to_seconds raises no error, and returns 0.0 for every timestamp
\* string that is not 2 or 3 colon-separated numeric fields.
C3_NeverFails ==
    (codec.state = "done" /\ time_str # None) =>
        /\ codec.raised = "no"
        /\ ~NumericFields(time_str) => codec.ms = 0

\* the maximal runs of non-empty lines
RECURSIVE BlockRuns(_, _)
BlockRuns(lines, run) ==
    IF lines = <<>> THEN (IF run = <<>> THEN <<>> ELSE <<run>>)
    ELSE IF lines[1] = <<>>
    THEN (IF run = <<>> THEN <<>> ELSE <<run>>) \o BlockRuns(Tail(lines), <<>>)
    ELSE BlockRuns(Tail(lines), Append(run, lines[1]))

IsIndexLine(l) == l # <<>> /\ AllDigits(l)

IsStampLine(l) ==
    /\ Len(l) = 29
    /\ MatchStamp(l, 1) /\ SubSeq(l, 13, 17) = Arrow /\ MatchStamp(l, 18)

\* an index line, a timestamp line, then the text lines
WellFormedBlock(b) == Len(b) >= 2 /\ IsIndexLine(b[1]) /\ IsStampLine(b[2])

SegmentOfBlock(b) ==
    [index      |-> DecVal(b[1]),
     start_time |-> SubSeq(b[2], 1, 12),
     end_time   |-> SubSeq(b[2], 18, 29),
     text       |-> Strip(JoinSpace(SubSeq(b, 3, Len(b))))]

RECURSIVE SegmentsOfBlocks(_)
SegmentsOfBlocks(bs) ==
    IF bs = <<>> THEN <<>>
    ELSE (IF WellFormedBlock(bs[1]) THEN <<SegmentOfBlock(bs[1])>> ELSE <<>>)
         \o SegmentsOfBlocks(Tail(bs))

ExpectedSegments(text) ==
    IF text = None THEN <<>>
    ELSE SegmentsOfBlocks(BlockRuns(Split(text, NL), <<>>))

\* C4: parse_srt returns one segment per well-formed block and none for any
\* other block, in block order, the index being that of the index line.
C4_SegmentPerBlock ==
    pc \in {"chunks", "assign", "score", "done"} =>
        entries = ExpectedSegments(srt_text)

\* C5: the score of a bucket with text is the value the scorer returned for
\* its merged text, and a failure of the scorer ends the call with that
\* failure, no point being emitted for the bucket.
C5_ScoreFromScorer ==
    /\ \A i \in 1..Len(results) :
          ~IsSilent(MergedText(i)) =>
              \E c \in 1..Len(calls) :
                  /\ calls[c].chunk = i
                  /\ calls[c].text = MergedText(i)
                  /\ calls[c].outcome.ok
                  /\ results[i].Sentiment = calls[c].outcome.polarity
    /\ \A c \in 1..Len(calls) :
          ~calls[c].outcome.ok =>
              /\ pc = "done" /\ ret = "ScorerError"
              /\ Len(results) < calls[c].chunk

\* C5 witness: the scorer returned 0.7 for the first bucket and failed on
\* the second one.
C5_Witness ==
    /\ pc = "done" /\ ret = "ScorerError"
    /\ Len(calls) = 2 /\ calls[1].outcome.ok /\ ~calls[2].outcome.ok
    /\ Len(results) = 1 /\ results[1].Sentiment = 7

\* C6: whatever the transcript and the chunk duration, the call ends by
\* returning a series or None, unless the scorer fails.
C6_NeverRaises == pc = "done" => ret \in {"DataFrame", "None", "ScorerError"}

\* C7: parse_srt gives no segment for empty or null input; the call returns
\* None exactly when no segment was parsed; with a segment and D >= 1 it
\* returns at least one point (unless the scorer fails).
C7_NoArc ==
    /\ (pc = "done" /\ (srt_text = None \/ srt_text = <<>>)) => entries = <<>>
    /\ pc = "done" => (ret = "None" <=> entries = <<>>)
    /\ (pc = "done" /\ entries # <<>> /\ chunk_duration >= 1) =>
          \/ ret = "ScorerError"
          \/ ret = "DataFrame" /\ Len(results) >= 1

\* C7 witness: a transcript that is not empty and holds no block the parser
\* accepts gives None.
C7_Witness ==
    /\ pc = "done" /\ ret = "None"
    /\ srt_text # None /\ srt_text # <<>>
    /\ entries = <<>>

\* C8: for D >= 1 the label of bucket i is MM:SS with two digits of seconds
\* in 0..59, at least two digits of minutes (no padding beyond two, no
\* wrapping at 60), and 60 * MM + SS = i * D; labels differ from bucket to
\* bucket.
C8_TimeLabel ==
    chunk_duration >= 1 =>
        \A i \in 1..Len(results) :
            LET label == results[i].Time
                parts == Split(label, ":")
                mm    == parts[1]
                ss    == parts[2]
            IN  /\ Len(parts) = 2
                /\ AllDigits(mm) /\ AllDigits(ss)
                /\ Len(ss) = 2 /\ DecVal(ss) \in 0..59
                /\ Len(mm) >= 2 /\ (Len(mm) > 2 => mm[1] # "0")
                /\ 60 * DecVal(mm) + DecVal(ss) = (i - 1) * chunk_duration
                /\ i > 1 => label # results[i - 1].Time

\* C8 witness: the bucket that starts at 90 minutes is labelled 90:00.
C8_Witness ==
    /\ chunk_duration = 30
    /\ Len(results) = 181
    /\ results[181].Time = <<"9", "0", ":", "0", "0">>

WholeSeconds == \A e \in 1..Len(entries) : StartMs(entries[e]) % 1000 = 0

LastStartsLast ==
    \A e \in 1..Len(entries) :
        StartMs(entries[e]) <= StartMs(entries[Len(entries)])

\* every entry is a fragment of exactly one bucket
NoneDropped ==
    /\ \A e \in 1..Len(entries) : placed[e] \in 1..Len(chunks)
    /\ \A i \in 1..Len(chunks) : chunks[i].text = FragmentsUpTo(i, Len(entries))

\* C9 as stated: with start times of whole seconds, in any order, and
\* D >= 1, no segment is dropped.
C9_NoneDroppedAnyOrder ==
    (Assigned /\ chunk_duration >= 1 /\ WholeSeconds) => NoneDropped

\* C9 amended: with start times of whole seconds none of which is later
\* than the start of the last segment, and D >= 1, no segment is dropped.
C9_NoneDroppedLastStartsLast ==
    (Assigned /\ chunk_duration >= 1 /\ WholeSeconds /\ LastStartsLast)
        => NoneDropped

\* C9 witness: two captions at 40 s and 95 s, D = 30, in buckets 1 and 3.
C9_Witness ==
    /\ Assigned /\ chunk_duration = 30 /\ WholeSeconds /\ LastStartsLast
    /\ Len(entries) = 2
    /\ StartMs(entries[1]) = 40000 /\ StartMs(entries[2]) = 95000
    /\ placed = <<2, 4>>

\* C10: a fragment of bucket i comes from a segment with
\* floor(start / D) = i, the fragments of a bucket are in segment order,
\* and the text scored and previewed is their single-space join.
C10_Bucketing ==
    /\ \A e \in 1..Len(placed) :
          (placed[e] # 0 /\ chunk_duration # 0) =>
              FloorDiv(StartMs(entries[e]), 1000 * chunk_duration) = placed[e] - 1
    /\ \A i \in 1..Len(chunks) : chunks[i].text = FragmentsUpTo(i, Len(placed))
    /\ \A c \in 1..Len(calls) :
          calls[c].text = JoinSpace(FragmentsUpTo(calls[c].chunk, Len(placed)))

=============================================================================
